---- MODULE Spec2Model ----
(***************************************************************************)
(* Blob store of matheusd/blob-poc: the Put/Get/Del contract over          *)
(*   - the baseline relational store (interface.go: auto-increment key),   *)
(*   - the client-minted-key relational store (ServerExecID + counter),    *)
(*   - the pinning store (ipfs.go: cluster add with a listener goroutine). *)
(*                                                                         *)
(* Numbers wider than TLC's integers are kept as tuples of 16-bit limbs,   *)
(* most significant first: a uint32 is <<hi, lo>>, a uint64 is             *)
(* <<l3, l2, l1, l0>>.  Identifiers are byte sequences in memory order.    *)
(***************************************************************************)
EXTENDS Integers, Sequences, FiniteSets, TLC

VARIABLES
    backend,      \* which store this run exercises: "sql", "key" or "ipfs"
    timeoutOn,    \* cfg.DefaultTimeout # 0
    crashed,      \* the process was aborted by a panic
    calls,        \* number of calls begun so far (bounds the run)
    tableExists,  \* the database holds the kv table
    kv,           \* rows of kv: key (uint64 bit pattern) -> value
    autoInc,      \* the engine's next auto_increment value
    storeOK,      \* new() of the baseline store has succeeded
    pc,           \* per caller: the operation in flight, or "idle"
    arg,          \* per caller: the argument of the operation in flight
    ret,          \* per caller: what the last finished operation returned
    puts,         \* history: identifier a Put returned -> its blob, and the Dels of it since
    setupOKs,     \* history: number of SetupDB calls that returned nil
    creates,      \* history: number of times the kv table was created
    execID,       \* per client-minted-key store: cfg.ServerExecID
    lastID,       \* per client-minted-key store: the counter lastID
    minted,       \* history: the keys minted, in the order of the increments
    aged,         \* history: per store, whether it had served Puts before the run
    pins,         \* the blobs the cluster holds, addressed by content
    lpc,          \* the listener goroutine of the pinning Put in flight
    ctxDone,      \* the scope of the pinning Put in flight is done
    chanClosed,   \* addedChan was closed by the cluster client
    gotCid,       \* the completion latch gotCid is closed
    idVar,        \* the variable id the listener writes and Put reads
    events,       \* history: the events delivered on addedChan in this call
    stalled       \* the collaborator never completes a request

sqlVars == <<tableExists, kv, autoInc, storeOK, setupOKs, creates>>
callVars == <<pc, arg, ret, puts, calls>>
keyVars == <<execID, lastID, minted, aged>>
ipfsVars == <<pins, lpc, ctxDone, chanClosed, gotCid, idVar, events>>
cfgVars == <<backend, timeoutOn, stalled>>
vars == <<backend, timeoutOn, crashed, calls, tableExists, kv, autoInc, storeOK,
          pc, arg, ret, puts, setupOKs, creates, execID, lastID, minted, aged,
          pins, lpc, ctxDone, chanClosed, gotCid, idVar, events, stalled>>

-----------------------------------------------------------------------------
(* Bounds of the model *)

\* callers (goroutines) of the client-minted-key stores
NProcs == 2
\* calls begun in one run of the baseline relational or the pinning store
MaxCalls == 3
\* calls begun in one run of the client-minted-key stores
MaxKeyCalls == 2
\* events the cluster delivers on addedChan during one Put
MaxEvents == 2

Procs == 1..NProcs
\* callers of the baseline relational store
SqlProcs == {1, 2}
\* the blobs stored: the empty one and one of one byte
Blobs == {<<>>, <<255>>}

-----------------------------------------------------------------------------
(* encoding/binary and fixed-width integers *)

Limb == 256 * 256

\* uint64(lastId) for the small non-negative values the engine hands out
Uint64OfInt(n) == <<0, 0, n \div Limb, n % Limb>>

\* binary.LittleEndian.PutUint64: least significant byte first
LittleEndianPutUint64(v) ==
    <<v[4] % 256, v[4] \div 256, v[3] % 256, v[3] \div 256,
      v[2] % 256, v[2] \div 256, v[1] % 256, v[1] \div 256>>

\* binary.BigEndian.Uint64: the first byte is the most significant
BigEndianUint64(b) ==
    <<b[1] * 256 + b[2], b[3] * 256 + b[4], b[5] * 256 + b[6], b[7] * 256 + b[8]>>

\* binary.LittleEndian.Uint64 of a slice of at least 8 bytes
LittleEndianUint64(b) ==
    <<b[8] * 256 + b[7], b[6] * 256 + b[5], b[4] * 256 + b[3], b[2] * 256 + b[1]>>

\* binary.LittleEndian.PutUint32: least significant byte first
LittleEndianPutUint32(x) == <<x[2] % 256, x[2] \div 256, x[1] % 256, x[1] \div 256>>

\* the high and the low 32 bits of a uint64
High32(v) == <<v[1], v[2]>>
Low32(v) == <<v[3], v[4]>>

\* a < b for uint32 values
Less32(a, b) == a[1] < b[1] \/ (a[1] = b[1] /\ a[2] < b[2])

\* the largest uint32 but one: 2^32 - 2
MaxUint32Pred == <<Limb - 1, Limb - 2>>

\* binary.LittleEndian.Uint64 panics (index out of range) on a shorter slice
Uint64Panics(b) == Len(b) < 8

-----------------------------------------------------------------------------
(* errors *)

NilErr == [kind |-> "nil", K |-> <<>>]
DBErr == [kind |-> "db", K |-> <<>>]
CtxErr == [kind |-> "ctx", K |-> <<>>]
Wrapped(what) == [kind |-> what, K |-> <<>>]
ErrNotFound(k) == [kind |-> "ErrNotFound", K |-> k]

\* ErrNotFound.Is: true when the target is an ErrNotFound, whatever its key
ErrNotFoundIs(e, target) == e.kind = "ErrNotFound" /\ target.kind = "ErrNotFound"

\* errors.Is(err, target) for the flat (never wrapping) errors of this package.
\* ErrNotFound holds a slice, so it is not comparable and only its Is method
\* can match it.
ErrorsIs(err, target) ==
    \/ err.kind # "ErrNotFound" /\ target.kind # "ErrNotFound" /\ err = target
    \/ ErrNotFoundIs(err, target)

\* history of the identifiers successful Puts returned: the blob stored, and
\* whether a Del of the identifier has run since ("no"), has run and returned
\* an error ("tried"), or has returned nil ("ok")
Stored(data) == [data |-> data, del |-> "no"]
Live(id) == id \in DOMAIN puts /\ puts[id].del = "no"
Deleted(id) == id \in DOMAIN puts /\ puts[id].del = "ok"
AfterDel(id, err) ==
    IF id \notin DOMAIN puts THEN puts
    ELSE [puts EXCEPT ![id].del = IF err = NilErr \/ @ = "ok" THEN "ok" ELSE "tried"]

NoRet == [op |-> "none", err |-> NilErr, val |-> <<>>, k |-> <<>>, db |-> "none"]
Ret(op, err, val, k, db) == [op |-> op, err |-> err, val |-> val, k |-> k, db |-> db]

-----------------------------------------------------------------------------
(* identifiers callers pass to Get and Del *)

\* the identifiers of the first two rows of the baseline store, and two
\* malformed ones (shorter than 8 bytes)
SqlIds == {LittleEndianPutUint64(Uint64OfInt(n)) : n \in {1, 2}}
ShortIds == {<<>>, <<1, 0, 0, 0, 0, 0, 0>>}

-----------------------------------------------------------------------------
(* Config.timeoutCtx *)

\* timeoutCtx that returns context.Background() whatever the configuration
timeoutCtxBackground == FALSE

\* whether the scope of a call can expire: context.Background() never does
timeoutCtx == timeoutOn

-----------------------------------------------------------------------------
(* SetupDB (interface.go) *)

CallLimit == IF backend = "key" THEN MaxKeyCalls ELSE MaxCalls

Begin(p, op, a) ==
    /\ ~crashed
    /\ pc[p] = "idle"
    /\ calls < CallLimit
    /\ calls' = calls + 1
    /\ pc' = [pc EXCEPT ![p] = op]
    /\ arg' = [arg EXCEPT ![p] = a]
    /\ ret' = [ret EXCEPT ![p] = NoRet]

Finish(p, r) ==
    /\ pc' = [pc EXCEPT ![p] = "idle"]
    /\ ret' = [ret EXCEPT ![p] = r]
    /\ UNCHANGED <<arg, calls>>

SetupDBBegin(p) ==
    /\ backend = "sql"
    /\ Begin(p, "setupQuery", <<>>)
    /\ UNCHANGED <<sqlVars, cfgVars, crashed, puts, keyVars, ipfsVars>>

\* what the database did with a statement: answered ("ok"), failed ("fail"),
\* did not answer before the deadline ("timeout"), or carried the statement
\* out although the caller had stopped waiting ("late")
DbOutcomes == {"ok", "fail", "timeout", "late"}
DbAllowed(db) == db \in {"timeout", "late"} => timeoutCtx
Applied(db) == db \in {"ok", "late"}
DbError(db) == IF db = "fail" THEN DBErr ELSE CtxErr

\* the statement sqlTableKV, carried out on a database without the table
sqlTableKV ==
    /\ tableExists' = TRUE
    /\ creates' = creates + 1
    /\ UNCHANGED <<kv, autoInc>>

\* the existence check with its test inverted: "already exists" on an error
SetupDBQueryInverted(p, db) ==
    /\ ~crashed
    /\ pc[p] = "setupQuery"
    /\ DbAllowed(db)
    /\ db # "late"
    /\ IF db = "ok" /\ tableExists
         THEN /\ pc' = [pc EXCEPT ![p] = "setupCreate"]
              /\ UNCHANGED <<arg, ret, calls>>
         ELSE Finish(p, Ret("setup", Wrapped("already exists"), <<>>, <<>>, db))
    /\ UNCHANGED <<sqlVars, cfgVars, crashed, puts, keyVars, ipfsVars>>

\* the existence check: "select k from kv limit 1"
SetupDBQuery(p, db) ==
    /\ ~crashed
    /\ pc[p] = "setupQuery"
    /\ DbAllowed(db)
    /\ db # "late"
    /\ IF db = "ok" /\ tableExists
         THEN Finish(p, Ret("setup", Wrapped("already exists"), <<>>, <<>>, db))
         ELSE IF db = "ok"
           \* the engine answers Error 1146: no such table
           THEN /\ pc' = [pc EXCEPT ![p] = "setupCreate"]
                /\ UNCHANGED <<arg, ret, calls>>
           ELSE Finish(p, Ret("setup", Wrapped("unexpected error"), <<>>, <<>>, db))
    /\ UNCHANGED <<sqlVars, cfgVars, crashed, puts, keyVars, ipfsVars>>

\* the create-table step with "create table if not exists": the statement
\* succeeds on a database that has the table
SetupDBCreateIfNotExists(p, db) ==
    /\ ~crashed
    /\ pc[p] = "setupCreate"
    /\ DbAllowed(db)
    /\ IF Applied(db) /\ ~tableExists
         THEN sqlTableKV
         ELSE UNCHANGED <<tableExists, kv, autoInc, creates>>
    /\ IF db = "ok"
         THEN /\ setupOKs' = setupOKs + 1
              /\ Finish(p, Ret("setup", NilErr, <<>>, <<>>, db))
         ELSE /\ UNCHANGED setupOKs
              /\ Finish(p, Ret("setup", Wrapped("unable to create"), <<>>, <<>>, db))
    /\ UNCHANGED <<storeOK, cfgVars, crashed, puts, keyVars, ipfsVars>>

\* the create-table step; the engine refuses to create a table that exists
SetupDBCreate(p, db) ==
    /\ ~crashed
    /\ pc[p] = "setupCreate"
    /\ DbAllowed(db)
    /\ IF Applied(db) /\ ~tableExists
         THEN sqlTableKV
         ELSE UNCHANGED <<tableExists, kv, autoInc, creates>>
    /\ IF db = "ok" /\ ~tableExists
         THEN /\ setupOKs' = setupOKs + 1
              /\ Finish(p, Ret("setup", NilErr, <<>>, <<>>, db))
         ELSE /\ UNCHANGED setupOKs
              /\ Finish(p, Ret("setup", Wrapped("unable to create"), <<>>, <<>>,
                               IF Applied(db) /\ tableExists THEN "exists" ELSE db))
    /\ UNCHANGED <<storeOK, cfgVars, crashed, puts, keyVars, ipfsVars>>

-----------------------------------------------------------------------------
(* the baseline relational store (interface.go) *)

\* new: the three statements are prepared, which needs the table
SqlNew(db) ==
    /\ backend = "sql"
    /\ ~crashed
    /\ ~storeOK
    /\ db \in {"ok", "fail"}
    /\ storeOK' = (db = "ok" /\ tableExists)
    /\ UNCHANGED <<tableExists, kv, autoInc, setupOKs, creates, callVars, cfgVars, crashed, keyVars, ipfsVars>>

SqlPutBegin(p, data) ==
    /\ backend = "sql"
    /\ storeOK
    /\ Begin(p, "put", data)
    /\ UNCHANGED <<sqlVars, cfgVars, crashed, puts, keyVars, ipfsVars>>

\* Put: the insert, res.LastInsertId (idErr: it fails), the key's encoding
SqlPut(p, db, idErr) ==
    /\ ~crashed
    /\ backend = "sql"
    /\ pc[p] = "put"
    /\ DbAllowed(db)
    /\ idErr => db = "ok"
    /\ LET keyBytes == LittleEndianPutUint64(Uint64OfInt(autoInc))
       IN  /\ IF Applied(db)
                THEN /\ kv' = (Uint64OfInt(autoInc) :> arg[p]) @@ kv
                     /\ autoInc' = autoInc + 1
                ELSE UNCHANGED <<kv, autoInc>>
           /\ IF db # "ok"
                THEN /\ Finish(p, Ret("put", DbError(db), <<>>, <<>>, db))
                     /\ UNCHANGED puts
                ELSE IF idErr
                  THEN /\ Finish(p, Ret("put", Wrapped("lastInsertId"), <<>>, <<>>, db))
                       /\ UNCHANGED puts
                  ELSE /\ Finish(p, Ret("put", NilErr, keyBytes, <<>>, db))
                       /\ puts' = (keyBytes :> Stored(arg[p])) @@ puts
    /\ UNCHANGED <<tableExists, storeOK, setupOKs, creates, cfgVars, crashed, keyVars, ipfsVars>>

SqlGetBegin(p, k) ==
    /\ backend = "sql"
    /\ storeOK
    /\ Begin(p, "get", k)
    /\ UNCHANGED <<sqlVars, cfgVars, crashed, puts, keyVars, ipfsVars>>

\* Get that reports a missing row as a plain error, as the client-minted-key
\* store does
SqlGetResultNoResults(k, db, rows) ==
    LET key == LittleEndianUint64(k)
    IN  IF db # "ok" THEN Ret("get", DbError(db), <<>>, k, db)
        ELSE IF rows = "errRows" THEN Ret("get", DBErr, <<>>, k, rows)
        ELSE IF key \notin DOMAIN kv THEN Ret("get", Wrapped("no results returned"), <<>>, k, db)
        ELSE IF rows \in {"errScan", "errClose"}
               THEN Ret("get", DBErr, <<>>, k, rows)
               ELSE Ret("get", NilErr, kv[key], k, db)

\* Get that takes every false res.Next() for "no rows", without res.Err()
SqlGetResultIgnoreErr(k, db, rows) ==
    LET key == LittleEndianUint64(k)
    IN  IF db # "ok" THEN Ret("get", DbError(db), <<>>, k, db)
        ELSE IF rows = "errRows" \/ key \notin DOMAIN kv
               THEN Ret("get", ErrNotFound(k), <<>>, k, rows)
        ELSE IF rows \in {"errScan", "errClose"}
               THEN Ret("get", DBErr, <<>>, k, rows)
               ELSE Ret("get", NilErr, kv[key], k, db)

\* what Get returns for identifier k when the database outcome is db and the
\* row iteration outcome is rows: "ok", or res.Next() false with an error
\* ("errRows", the row read or not), or an error of Scan or Close on the row
SqlGetResult(k, db, rows) ==
    LET key == LittleEndianUint64(k)
    IN  IF db # "ok" THEN Ret("get", DbError(db), <<>>, k, db)
        ELSE IF rows = "errRows" THEN Ret("get", DBErr, <<>>, k, rows)
        ELSE IF key \notin DOMAIN kv THEN Ret("get", ErrNotFound(k), <<>>, k, db)
        ELSE IF rows \in {"errScan", "errClose"}
               THEN Ret("get", DBErr, <<>>, k, rows)
               ELSE Ret("get", NilErr, kv[key], k, db)

\* Get: decode the key (a short identifier panics), query, read the row
SqlGet(p, db, rows) ==
    /\ ~crashed
    /\ backend = "sql"
    /\ pc[p] = "get"
    /\ ~Uint64Panics(arg[p])
    /\ db \in {"ok", "fail", "timeout"}
    /\ DbAllowed(db)
    /\ rows # "ok" => db = "ok"
    /\ rows \in {"errScan", "errClose"} => LittleEndianUint64(arg[p]) \in DOMAIN kv
    /\ Finish(p, SqlGetResult(arg[p], db, rows))
    /\ UNCHANGED <<sqlVars, cfgVars, crashed, puts, keyVars, ipfsVars>>

SqlDelBegin(p, k) ==
    /\ backend = "sql"
    /\ storeOK
    /\ Begin(p, "del", k)
    /\ UNCHANGED <<sqlVars, cfgVars, crashed, puts, keyVars, ipfsVars>>

\* Del that reports a delete of no row as a not-found error
SqlDelStrict(p, db) ==
    /\ ~crashed
    /\ backend = "sql"
    /\ pc[p] = "del"
    /\ ~Uint64Panics(arg[p])
    /\ DbAllowed(db)
    /\ LET key == LittleEndianUint64(arg[p])
       IN  /\ kv' = IF Applied(db)
                      THEN [x \in DOMAIN kv \ {key} |-> kv[x]]
                      ELSE kv
           /\ Finish(p, Ret("del",
                            IF db # "ok" THEN DbError(db)
                            ELSE IF key \in DOMAIN kv THEN NilErr
                            ELSE ErrNotFound(arg[p]),
                            <<>>, arg[p], db))
           /\ puts' = AfterDel(arg[p], ret'[p].err)
    /\ UNCHANGED <<tableExists, autoInc, storeOK, setupOKs, creates, cfgVars, crashed, keyVars, ipfsVars>>

\* Del whose statement has no where clause: "delete from kv"
SqlDelAll(p, db) ==
    /\ ~crashed
    /\ backend = "sql"
    /\ pc[p] = "del"
    /\ ~Uint64Panics(arg[p])
    /\ DbAllowed(db)
    /\ kv' = IF Applied(db) THEN <<>> ELSE kv
    /\ Finish(p, Ret("del", IF db = "ok" THEN NilErr ELSE DbError(db),
                     <<>>, arg[p], db))
    /\ puts' = AfterDel(arg[p], ret'[p].err)
    /\ UNCHANGED <<tableExists, autoInc, storeOK, setupOKs, creates, cfgVars, crashed, keyVars, ipfsVars>>

\* Del: decode the key, "delete from kv where k = ?"; no row is no error
SqlDel(p, db) ==
    /\ ~crashed
    /\ backend = "sql"
    /\ pc[p] = "del"
    /\ ~Uint64Panics(arg[p])
    /\ DbAllowed(db)
    /\ LET key == LittleEndianUint64(arg[p])
       IN  /\ kv' = IF Applied(db)
                      THEN [x \in DOMAIN kv \ {key} |-> kv[x]]
                      ELSE kv
           /\ Finish(p, Ret("del", IF db = "ok" THEN NilErr ELSE DbError(db),
                            <<>>, arg[p], db))
           /\ puts' = AfterDel(arg[p], ret'[p].err)
    /\ UNCHANGED <<tableExists, autoInc, storeOK, setupOKs, creates, cfgVars, crashed, keyVars, ipfsVars>>

\* Get or Del of an identifier shorter than 8 bytes: LittleEndian.Uint64, the
\* first statement of both, panics (index out of range)
SqlPanic(p, op, k) ==
    /\ ~crashed
    /\ \/ backend = "sql" /\ storeOK /\ op \in {"get", "del"}
       \/ backend = "key" /\ op = "get"
    /\ pc[p] = "idle"
    /\ calls < CallLimit
    /\ Uint64Panics(k)
    /\ crashed' = TRUE
    /\ UNCHANGED <<sqlVars, callVars, cfgVars, keyVars, ipfsVars>>

-----------------------------------------------------------------------------
(* the client-minted-key relational store (ServerExecID + counter) *)

Stores == {"A", "B"}
ExecIDs == {<<0, 7>>, <<513, 7>>}

\* atomic.AddUint32(&x, 1): the new value, wrapping at 2^32
AddUint32(x) ==
    IF x[2] + 1 < Limb THEN <<x[1], x[2] + 1>>
    ELSE IF x[1] + 1 < Limb THEN <<x[1] + 1, 0>>
    ELSE <<0, 0>>

\* the key bytes with the execution id left out
KeyBytesNoExecID(exec, id) ==
    LittleEndianPutUint32(<<0, 0>>) \o LittleEndianPutUint32(id)

\* the key bytes with the counter first and the execution id second
KeyBytesCounterFirst(exec, id) ==
    LittleEndianPutUint32(id) \o LittleEndianPutUint32(exec)

\* keyBytes of Put: ServerExecID in bytes 0..3, the counter in bytes 4..7
KeyBytes(exec, id) ==
    LittleEndianPutUint32(exec) \o LittleEndianPutUint32(id)

\* the identifiers callers pass to Get and Del of this store: the first key
\* of a fresh store with either execution id
KeyIds == {KeyBytes(e, <<0, 1>>) : e \in ExecIDs}

\* Put's first half with a plain read and write of lastID instead of the
\* atomic add: a Put that read lastID before another Put on the store wrote
\* it computes the value the other one has
KeyPutBeginRacy(p, s, data) ==
    /\ backend = "key"
    /\ LET id == IF \E q \in Procs \ {p} : pc[q] = "kput" /\ arg[q].s = s
                   THEN lastID[s]
                   ELSE AddUint32(lastID[s])
           keyBytes == KeyBytes(execID[s], id)
       IN  /\ Begin(p, "kput", [s |-> s, data |-> data, keyBytes |-> keyBytes,
                                 key |-> LittleEndianUint64(keyBytes)])
           /\ lastID' = [lastID EXCEPT ![s] = id]
           /\ minted' = Append(minted, [s |-> s, ctr |-> id, id |-> keyBytes])
    /\ UNCHANGED <<sqlVars, cfgVars, crashed, puts, execID, aged, ipfsVars>>

\* Put, up to the insert: the atomic increment, keyBytes and key
KeyPutBegin(p, s, data) ==
    /\ backend = "key"
    /\ LET id == AddUint32(lastID[s])
           keyBytes == KeyBytes(execID[s], id)
       IN  /\ Begin(p, "kput", [s |-> s, data |-> data, keyBytes |-> keyBytes,
                                 key |-> LittleEndianUint64(keyBytes)])
           /\ lastID' = [lastID EXCEPT ![s] = id]
           /\ minted' = Append(minted, [s |-> s, ctr |-> id, id |-> keyBytes])
    /\ UNCHANGED <<sqlVars, cfgVars, crashed, puts, execID, aged, ipfsVars>>

\* Put, the insert "insert into kv (k, v) values (?, ?)"; the engine refuses
\* a key the table already holds (primary key)
KeyPut(p, db) ==
    /\ ~crashed
    /\ backend = "key"
    /\ pc[p] = "kput"
    /\ DbAllowed(db)
    /\ LET a == arg[p]
           dup == a.key \in DOMAIN kv
       IN  /\ kv' = IF Applied(db) /\ ~dup THEN (a.key :> a.data) @@ kv ELSE kv
           /\ IF db = "ok" /\ ~dup
                THEN /\ Finish(p, Ret("put", NilErr, a.keyBytes, <<>>, db))
                     /\ puts' = (a.keyBytes :> Stored(a.data)) @@ puts
                ELSE /\ Finish(p, Ret("put", DbError(IF db = "ok" THEN "fail" ELSE db),
                                      <<>>, a.keyBytes,
                                      IF Applied(db) THEN "duplicate" ELSE db))
                     /\ UNCHANGED puts
    /\ UNCHANGED <<tableExists, autoInc, storeOK, setupOKs, creates, cfgVars,
                   crashed, keyVars, ipfsVars>>

KeyGetBegin(p, k) ==
    /\ backend = "key"
    /\ Begin(p, "kget", k)
    /\ UNCHANGED <<sqlVars, cfgVars, crashed, puts, keyVars, ipfsVars>>

\* what Get of the client-minted-key store returns for identifier k: no row
\* is the plain error "no results returned"
KeyGetResult(k, db, rows) ==
    LET key == LittleEndianUint64(k)
    IN  IF db # "ok" THEN Ret("get", DbError(db), <<>>, k, db)
        ELSE IF rows = "errRows" THEN Ret("get", DBErr, <<>>, k, rows)
        ELSE IF key \notin DOMAIN kv THEN Ret("get", Wrapped("no results returned"), <<>>, k, db)
        ELSE IF rows \in {"errScan", "errClose"}
               THEN Ret("get", DBErr, <<>>, k, rows)
               ELSE Ret("get", NilErr, kv[key], k, db)

\* Get of the client-minted-key store: decode the key, query, read the row
KeyGet(p, db, rows) ==
    /\ ~crashed
    /\ backend = "key"
    /\ pc[p] = "kget"
    /\ ~Uint64Panics(arg[p])
    /\ db \in {"ok", "fail", "timeout"}
    /\ DbAllowed(db)
    /\ rows # "ok" => db = "ok"
    /\ rows \in {"errScan", "errClose"} => LittleEndianUint64(arg[p]) \in DOMAIN kv
    /\ Finish(p, KeyGetResult(arg[p], db, rows))
    /\ UNCHANGED <<sqlVars, cfgVars, crashed, puts, keyVars, ipfsVars>>

\* Del of the client-minted-key store: "not yet"
KeyDel(p, k) ==
    /\ backend = "key"
    /\ ~crashed
    /\ pc[p] = "idle"
    /\ calls < CallLimit
    /\ calls' = calls + 1
    /\ ret' = [ret EXCEPT ![p] = Ret("del", Wrapped("not yet"), <<>>, k, "none")]
    /\ UNCHANGED <<pc, arg, puts, sqlVars, cfgVars, crashed, keyVars, ipfsVars>>

-----------------------------------------------------------------------------
(* the pinning store (ipfs.go) *)

\* the one caller of the pinning store
Caller == CHOOSE p \in SqlProcs : \A q \in SqlProcs : p <= q

\* a content identifier is modelled by the content it names (a hash without
\* collisions); NoCid is the nil *cid.Cid, NilEvent the nil *AddedOutput
NoCid == <<"nil">>
NilEvent == <<"nilEvent">>
CidOf(data) == <<"cid", data>>
Cids == {CidOf(b) : b \in Blobs}

\* the events the cluster may deliver while it adds data: nil, the content
\* identifier of data, or that of another node (here: of the other blob)
OtherCid(data) == CidOf(IF data = <<>> THEN <<255>> ELSE <<>>)
AddEvents(data) == {NilEvent, CidOf(data), OtherCid(data)}

\* Cid.String: the textual form, here a two-byte prefix before the digest
CidString(c) == <<81, 109>> \o c[2]

\* the content the cluster serves for the textual identifier key, if any
CatFinds(key) ==
    /\ Len(key) >= 2
    /\ SubSeq(key, 1, 2) = <<81, 109>>
    /\ SubSeq(key, 3, Len(key)) \in pins
CatData(key) == SubSeq(key, 3, Len(key))

IpfsIds == {CidString(c) : c \in Cids} \cup {<<>>}

\* cancel(): the function timeoutCtx returned; a no-op without a deadline
Cancelled == IF timeoutCtx THEN TRUE ELSE ctxDone

\* Put up to the call of Add: the temp file (wr: WriteFile's outcome), the
\* scope, the channels, the listener goroutine
IpfsPutBegin(data, wr) ==
    /\ backend = "ipfs"
    /\ Begin(Caller, "iadd", data)
    /\ wr \in {"ok", "fail"}
    /\ IF wr = "fail"
         THEN /\ pc' = pc
              /\ ret' = [ret EXCEPT ![Caller] =
                           Ret("put", Wrapped("error writing temp file"), <<>>, <<>>,
                               "writeFile")]
              /\ UNCHANGED <<lpc, ctxDone, chanClosed, gotCid, idVar, events>>
         ELSE /\ lpc' = "loop"
              /\ ctxDone' = FALSE
              /\ chanClosed' = FALSE
              /\ gotCid' = FALSE
              /\ idVar' = NoCid
              /\ events' = <<>>
    /\ UNCHANGED <<sqlVars, cfgVars, crashed, puts, keyVars, pins>>

\* the deadline of the scope fires
Deadline ==
    /\ backend = "ipfs"
    /\ ~crashed
    /\ timeoutCtx
    /\ pc[Caller] \in {"iadd", "iselect"}
    /\ ~ctxDone
    /\ ctxDone' = TRUE
    /\ UNCHANGED <<sqlVars, cfgVars, crashed, callVars, keyVars, pins, lpc,
                   chanClosed, gotCid, idVar, events>>

\* the cluster client sends event e on addedChan and the listener receives it:
\* a nil event is skipped, any other one is recorded in id
AddSend(e) ==
    /\ backend = "ipfs"
    /\ ~crashed
    /\ ~stalled
    /\ pc[Caller] = "iadd"
    /\ lpc = "loop"
    /\ Len(events) < MaxEvents
    /\ events' = Append(events, e)
    /\ IF e = NilEvent
         THEN UNCHANGED <<idVar, lpc, pins>>
         ELSE /\ idVar' = e
              /\ lpc' = "close"
              /\ pins' = pins \cup {e[2]}
    /\ UNCHANGED <<sqlVars, cfgVars, crashed, callVars, keyVars, ctxDone,
                   chanClosed, gotCid>>

\* the listener closes gotCid; closing a closed channel panics
ListenerClose ==
    /\ backend = "ipfs"
    /\ ~crashed
    /\ lpc = "close"
    /\ IF gotCid
         THEN /\ crashed' = TRUE
              /\ UNCHANGED <<gotCid, lpc>>
         ELSE /\ gotCid' = TRUE
              /\ lpc' = "loop"
              /\ UNCHANGED crashed
    /\ UNCHANGED <<sqlVars, cfgVars, callVars, keyVars, pins, ctxDone,
                   chanClosed, idVar, events>>

\* the listener takes a nil from the closed addedChan, or the done scope,
\* and goes round its loop again: "break" leaves the select, not the for
ListenerSpin ==
    /\ backend = "ipfs"
    /\ ~crashed
    /\ lpc = "loop"
    /\ chanClosed \/ ctxDone
    /\ UNCHANGED vars

\* Add returns: r is nil, an error of the cluster, or the error of the done
\* scope; cl: the client has closed addedChan by then.  A collaborator that
\* never completes the request delivers no event and reports no failure.
AddReturn(r, cl) ==
    /\ backend = "ipfs"
    /\ ~crashed
    /\ pc[Caller] = "iadd"
    /\ r \in {"nil", "fail", "ctx"}
    /\ r = "ctx" => ctxDone
    /\ stalled => r # "fail"
    /\ chanClosed' = cl
    /\ IF r = "nil"
         THEN /\ pc' = [pc EXCEPT ![Caller] = "iselect"]
              /\ UNCHANGED <<arg, ret, calls, ctxDone>>
         ELSE /\ Finish(Caller, Ret("put", DbError(r), <<>>, <<>>, r))
              /\ ctxDone' = Cancelled
    /\ UNCHANGED <<sqlVars, cfgVars, crashed, puts, keyVars, pins, lpc, gotCid,
                   idVar, events>>

\* the content identifier of the first non-nil event among evs, if any
FirstCid(evs) ==
    LET idx == {i \in 1..Len(evs) : evs[i] # NilEvent}
    IN  IF idx = {} THEN NoCid
        ELSE evs[CHOOSE i \in idx : \A j \in idx : i <= j]

\* what Put's read of id can see.  The listener's first write happens before
\* close(gotCid) and so before the read; its later writes are ordered with
\* nothing (a data race): while the listener is between the receive of a
\* further event and its close, the read sees the new value or the one before.
IdReads ==
    IF lpc = "close" /\ gotCid
      THEN {idVar} \cup {events[i] : i \in {j \in 1..(Len(events) - 1) :
                            /\ events[j] # NilEvent
                            /\ \A k \in (j + 1)..(Len(events) - 1) : events[k] = NilEvent}}
      ELSE {idVar}

\* the select after Add: c names the case taken, gotCid or ctx.Done; id is
\* what the read of the variable id sees
IpfsPutSelect(c, id) ==
    /\ backend = "ipfs"
    /\ ~crashed
    /\ pc[Caller] = "iselect"
    /\ c \in {"gotCid", "done"}
    /\ c = "gotCid" => gotCid
    /\ c = "done" => ctxDone
    /\ id \in IdReads
    /\ IF c = "done"
         THEN /\ Finish(Caller, Ret("put", Wrapped("cid not returned before ctx timeout"),
                                    <<>>, <<>>, c))
              /\ UNCHANGED puts
         ELSE /\ Finish(Caller, Ret("put", NilErr, CidString(id), <<>>, c))
              /\ puts' = IF \A i \in 1..Len(events) :
                               events[i] \in {NilEvent, CidOf(arg[Caller])}
                           THEN (CidString(id) :> Stored(arg[Caller])) @@ puts
                           ELSE puts
    /\ ctxDone' = Cancelled
    /\ UNCHANGED <<sqlVars, cfgVars, crashed, keyVars, pins, lpc, chanClosed,
                   gotCid, idVar, events>>

\* what Get returns for identifier k when Cat and ReadAll end as out
IpfsGetResult(k, out) ==
    IF out = "ok" THEN Ret("get", NilErr, CatData(k), k, out)
    ELSE Ret("get", Wrapped(out), <<>>, k, out)

\* Get: Cat of the identifier's string and ReadAll (out: their outcome)
IpfsGet(k, out) ==
    /\ backend = "ipfs"
    /\ ~crashed
    /\ pc[Caller] = "idle"
    /\ calls < CallLimit
    /\ calls' = calls + 1
    /\ out \in {"ok", "errCat", "errRead"}
    /\ out = "ok" => CatFinds(k) /\ ~stalled
    /\ ret' = [ret EXCEPT ![Caller] = IpfsGetResult(k, out)]
    /\ UNCHANGED <<pc, arg, puts, sqlVars, cfgVars, crashed, keyVars, ipfsVars>>

\* Del that unpins the content
IpfsDelUnpin(k) ==
    /\ backend = "ipfs"
    /\ ~crashed
    /\ pc[Caller] = "idle"
    /\ calls < CallLimit
    /\ calls' = calls + 1
    /\ pins' = IF Len(k) >= 2 THEN pins \ {CatData(k)} ELSE pins
    /\ ret' = [ret EXCEPT ![Caller] =
                 Ret("del", IF pins' = pins THEN Wrapped("not yet") ELSE NilErr,
                     <<>>, k, "none")]
    /\ UNCHANGED <<pc, arg, puts, sqlVars, cfgVars, crashed, keyVars, lpc, ctxDone,
                   chanClosed, gotCid, idVar, events>>

\* Del: "not yet"
IpfsDel(k) ==
    /\ backend = "ipfs"
    /\ ~crashed
    /\ pc[Caller] = "idle"
    /\ calls < CallLimit
    /\ calls' = calls + 1
    /\ ret' = [ret EXCEPT ![Caller] = Ret("del", Wrapped("not yet"), <<>>, k, "none")]
    /\ UNCHANGED <<pc, arg, puts, sqlVars, cfgVars, crashed, keyVars, ipfsVars>>

-----------------------------------------------------------------------------
(* the specifications *)

RowOutcomes == {"ok", "errRows", "errScan", "errClose"}

\* the baseline store, on a database with or without the kv table
InitSql ==
    /\ backend = "sql"
    /\ timeoutOn = TRUE
    /\ tableExists \in BOOLEAN
    /\ execID = [s \in Stores |-> <<0, 0>>]
    /\ lastID = [s \in Stores |-> <<0, 0>>]
    /\ aged = [s \in Stores |-> FALSE]
    /\ stalled = FALSE
    /\ crashed = FALSE
    /\ calls = 0
    /\ kv = <<>>
    /\ autoInc = 1
    /\ storeOK = FALSE
    /\ pc = [p \in Procs |-> "idle"]
    /\ arg = [p \in Procs |-> <<>>]
    /\ ret = [p \in Procs |-> NoRet]
    /\ puts = <<>>
    /\ setupOKs = 0
    /\ creates = 0
    /\ minted = <<>>
    /\ pins = {}
    /\ lpc = "none"
    /\ ctxDone = FALSE
    /\ chanClosed = FALSE
    /\ gotCid = FALSE
    /\ idVar = NoCid
    /\ events = <<>>

\* two client-minted-key stores on one table; each is fresh (lastID = 0) or
\* has served 2^32 - 2 Puts before the run (every Put adds one to lastID,
\* whether its insert succeeds or not)
InitKey ==
    /\ backend = "key"
    /\ timeoutOn = TRUE
    /\ tableExists = TRUE
    /\ execID \in {e \in [Stores -> ExecIDs] : e["A"] = <<0, 7>>}
    /\ aged \in {a \in [Stores -> BOOLEAN] : ~a["B"]}
    /\ lastID = [s \in Stores |-> IF aged[s] THEN MaxUint32Pred ELSE <<0, 0>>]
    /\ stalled = FALSE
    /\ crashed = FALSE
    /\ calls = 0
    /\ kv = <<>>
    /\ autoInc = 1
    /\ storeOK = FALSE
    /\ pc = [p \in Procs |-> "idle"]
    /\ arg = [p \in Procs |-> <<>>]
    /\ ret = [p \in Procs |-> NoRet]
    /\ puts = <<>>
    /\ setupOKs = 0
    /\ creates = 0
    /\ minted = <<>>
    /\ pins = {}
    /\ lpc = "none"
    /\ ctxDone = FALSE
    /\ chanClosed = FALSE
    /\ gotCid = FALSE
    /\ idVar = NoCid
    /\ events = <<>>

\* the pinning store, with a cluster that answers or one that never does
InitIpfs ==
    /\ backend = "ipfs"
    /\ timeoutOn \in BOOLEAN
    /\ tableExists = FALSE
    /\ execID = [s \in Stores |-> <<0, 0>>]
    /\ lastID = [s \in Stores |-> <<0, 0>>]
    /\ aged = [s \in Stores |-> FALSE]
    /\ stalled \in BOOLEAN
    /\ crashed = FALSE
    /\ calls = 0
    /\ kv = <<>>
    /\ autoInc = 1
    /\ storeOK = FALSE
    /\ pc = [p \in Procs |-> "idle"]
    /\ arg = [p \in Procs |-> <<>>]
    /\ ret = [p \in Procs |-> NoRet]
    /\ puts = <<>>
    /\ setupOKs = 0
    /\ creates = 0
    /\ minted = <<>>
    /\ pins = {}
    /\ lpc = "none"
    /\ ctxDone = FALSE
    /\ chanClosed = FALSE
    /\ gotCid = FALSE
    /\ idVar = NoCid
    /\ events = <<>>

Init == InitSql \/ InitKey \/ InitIpfs

NextSql ==
    \/ \E p \in SqlProcs : SetupDBBegin(p)
    \/ \E p \in SqlProcs, db \in DbOutcomes : SetupDBQuery(p, db)
    \/ \E p \in SqlProcs, db \in DbOutcomes : SetupDBCreate(p, db)
    \/ \E db \in DbOutcomes : SqlNew(db)
    \/ \E p \in SqlProcs, data \in Blobs : SqlPutBegin(p, data)
    \/ \E p \in SqlProcs, db \in DbOutcomes, idErr \in BOOLEAN : SqlPut(p, db, idErr)
    \/ \E p \in SqlProcs, k \in SqlIds : SqlGetBegin(p, k)
    \/ \E p \in SqlProcs, db \in DbOutcomes, rows \in RowOutcomes : SqlGet(p, db, rows)
    \/ \E p \in SqlProcs, k \in SqlIds : SqlDelBegin(p, k)
    \/ \E p \in SqlProcs, db \in DbOutcomes : SqlDel(p, db)
    \/ \E p \in SqlProcs, op \in {"get", "del"}, k \in ShortIds : SqlPanic(p, op, k)

NextKey ==
    \/ \E p \in Procs, s \in Stores, data \in Blobs : KeyPutBegin(p, s, data)
    \/ \E p \in Procs, db \in DbOutcomes : KeyPut(p, db)
    \/ \E p \in Procs, k \in KeyIds : KeyGetBegin(p, k)
    \/ \E p \in Procs, db \in DbOutcomes, rows \in RowOutcomes : KeyGet(p, db, rows)
    \/ \E p \in Procs, k \in KeyIds : KeyDel(p, k)
    \/ \E p \in Procs, k \in ShortIds : SqlPanic(p, "get", k)

NextIpfs ==
    \/ \E data \in Blobs, wr \in {"ok", "fail"} : IpfsPutBegin(data, wr)
    \/ Deadline
    \/ \E e \in AddEvents(arg[Caller]) : AddSend(e)
    \/ ListenerClose
    \/ ListenerSpin
    \/ \E r \in {"nil", "fail", "ctx"}, cl \in BOOLEAN : AddReturn(r, cl)
    \/ \E c \in {"gotCid", "done"}, id \in Cids \cup {NoCid} : IpfsPutSelect(c, id)
    \/ \E k \in IpfsIds, out \in {"ok", "errCat", "errRead"} : IpfsGet(k, out)
    \/ \E k \in IpfsIds : IpfsDel(k)

Next == NextSql \/ NextKey \/ NextIpfs

Spec == Init /\ [][Next]_vars

\* the stores with a working Put, Get and Del
SpecPutGet == (InitSql \/ InitIpfs) /\ [][NextSql \/ NextIpfs]_vars

\* the pinning store where the deadline fires, Add returns once its scope is
\* done, and the goroutine of Put is scheduled
FairSpecIpfs ==
    /\ InitIpfs /\ [][NextIpfs]_vars
    /\ WF_vars(Deadline)
    /\ WF_vars(\E cl \in BOOLEAN : AddReturn("ctx", cl))
    /\ WF_vars(\E c \in {"gotCid", "done"}, id \in Cids \cup {NoCid} : IpfsPutSelect(c, id))

\* the pinning store where, besides, the listener goroutine is scheduled
FairSpecListener ==
    /\ FairSpecIpfs
    /\ WF_vars(ListenerClose)
    /\ WF_vars(ListenerSpin)

\* the two relational stores
SpecRelational == (InitSql \/ InitKey) /\ [][NextSql \/ NextKey]_vars

\* one backend at a time
SpecSql == InitSql /\ [][NextSql]_vars
SpecKey == InitKey /\ [][NextKey]_vars
SpecIpfs == InitIpfs /\ [][NextIpfs]_vars

-----------------------------------------------------------------------------
(* steps of the callers, as the properties below see them *)

\* caller p of a relational store ends its operation op in this step
Ends(p, op) == pc[p] = op /\ pc'[p] = "idle"

\* the caller of the pinning store runs a whole Get or Del (op) in this step
IpfsRuns(op) ==
    /\ backend = "ipfs"
    /\ calls' = calls + 1
    /\ pc[Caller] = "idle"
    /\ pc'[Caller] = "idle"
    /\ ret'[Caller].op = op

-----------------------------------------------------------------------------
(* C1 *)

\* C1 (round trip): in the baseline relational and in the pinning store, a Get
\* of an identifier that a successful Put(b) returned and that no Del has
\* touched since returns exactly b whenever the collaborator answers the Get,
\* whatever other Puts and Dels of other identifiers ran in between; in the
\* pinning store the content of every such identifier stays retrievable.
\* (Pinning store: for the Puts during which the cluster delivered no content
\* identifier but the one of b.)
RoundTrip ==
    /\ [][\A p \in SqlProcs :
            (Ends(p, "get") /\ Live(arg[p]) /\ ret'[p].db = "ok")
               => (ret'[p].err = NilErr /\ ret'[p].val = puts[arg[p]].data)]_vars
    /\ [][\A k \in IpfsIds :
            (IpfsRuns("get") /\ ret'[Caller].k = k /\ Live(k) /\ ret'[Caller].db = "ok")
               => (ret'[Caller].err = NilErr /\ ret'[Caller].val = puts[k].data)]_vars
    /\ [](backend = "ipfs" => \A k \in DOMAIN puts : CatFinds(k))

\* a Get returned the blob of the first Put after a second Put had stored
\* another row, and the blob is the empty one
RoundTripWitness ==
    \E p \in SqlProcs :
        /\ backend = "sql"
        /\ ret[p].op = "get" /\ ret[p].err = NilErr
        /\ Live(ret[p].k) /\ ret[p].val = puts[ret[p].k].data
        /\ ret[p].val = <<>>
        /\ ret[p].k = LittleEndianPutUint64(Uint64OfInt(1))
        /\ Cardinality(DOMAIN kv) = 2

-----------------------------------------------------------------------------
(* C2 *)

\* C2 (not found after delete): in the baseline relational store, once Put
\* has returned id and a Del(id) has returned nil, every Get(id) the database
\* answers fails with an ErrNotFound that carries id and that errors.Is
\* matches against an ErrNotFound with another (the empty) key.
NotFoundAfterDel ==
    [][\A p \in SqlProcs :
         (Ends(p, "get") /\ Deleted(arg[p]) /\ ret'[p].db = "ok")
            => /\ ret'[p].err = ErrNotFound(arg[p])
               /\ ret'[p].err.K = arg[p]
               /\ ErrorsIs(ret'[p].err, ErrNotFound(<<>>))
               /\ ret'[p].val = <<>>]_vars

\* a Get of a stored and then deleted identifier has returned ErrNotFound
NotFoundAfterDelWitness ==
    \E p \in SqlProcs :
        /\ ret[p].op = "get" /\ ret[p].db = "ok"
        /\ Deleted(ret[p].k)
        /\ ret[p].err.kind = "ErrNotFound"

-----------------------------------------------------------------------------
(* C8 *)

\* C8 (setup guard): a SetupDB whose existence check finds no table goes on
\* to create it, and returns nil exactly when its create-table statement is
\* answered on a database still without the table, which then has it; a
\* SetupDB whose check runs on a database with the table returns an error;
\* no step of SetupDB changes a row, and the table, once there, stays.
SetupGuard ==
    [][/\ tableExists => tableExists'
       /\ \A p \in SqlProcs :
            /\ (pc[p] = "setupQuery" /\ pc'[p] # "setupQuery")
                 => /\ kv' = kv /\ tableExists' = tableExists
                    /\ IF tableExists
                         THEN pc'[p] = "idle" /\ ret'[p].err # NilErr
                         ELSE pc'[p] = "setupCreate" \/ ret'[p].db \in {"fail", "timeout"}
            /\ Ends(p, "setupCreate")
                 => /\ kv' = kv
                    /\ ret'[p].err = NilErr <=> (~tableExists /\ ret'[p].db = "ok")
                    /\ ret'[p].err = NilErr => tableExists']_vars

\* the first SetupDB has created the table, rows were stored, and a later
\* SetupDB has failed on the existing table, the rows still there
SetupGuardWitness ==
    \E p \in SqlProcs :
        /\ setupOKs = 1
        /\ ret[p].op = "setup" /\ ret[p].err.kind = "already exists"
        /\ DOMAIN kv # {}

-----------------------------------------------------------------------------
(* C10 *)

\* C10 (delete of a missing key): in the baseline relational store a Del of an
\* identifier that maps to no row, answered by the database, returns nil, and
\* it leaves every row as it was.
DelMissing ==
    [][\A p \in SqlProcs :
         (Ends(p, "del") /\ LittleEndianUint64(arg[p]) \notin DOMAIN kv)
            => /\ kv' = kv
               /\ ret'[p].db = "ok" => ret'[p].err = NilErr]_vars

\* two Dels of one identifier in a row, the second on the row already gone,
\* have both returned nil, and another row is still stored
DelMissingWitness ==
    /\ backend = "sql"
    /\ ret[1].op = "del" /\ ret[2].op = "del"
    /\ ret[1].k = ret[2].k
    /\ ret[1].err = NilErr /\ ret[2].err = NilErr
    /\ LittleEndianUint64(ret[1].k) \notin DOMAIN kv
    /\ DOMAIN kv # {}

-----------------------------------------------------------------------------
(* the keys minted in a run *)

Minted == {minted[i] : i \in 1..Len(minted)}
MintedAt == 1..Len(minted)

-----------------------------------------------------------------------------
(* C3 *)

\* C3 (key uniqueness under concurrency): no two Put calls on one
\* client-minted-key store are given the same 8-byte identifier, in any
\* interleaving of the calls and whether their inserts succeed or fail (for
\* runs of fewer than 2^32 calls, started at any value of the counter).
UniqueKeysPerStore ==
    \A i, j \in MintedAt :
        (i # j /\ minted[i].s = minted[j].s) => minted[i].id # minted[j].id

\* two Puts on one store are in flight together, after their increments and
\* before their inserts
UniqueKeysPerStoreWitness ==
    /\ backend = "key"
    /\ \E p, q \in Procs :
         /\ p # q
         /\ pc[p] = "kput" /\ pc[q] = "kput"
         /\ arg[p].s = arg[q].s

-----------------------------------------------------------------------------
(* C4 *)

\* C4 (cross-process key uniqueness): two client-minted-key stores configured
\* with different ServerExecID values never mint the same identifier, also
\* when their counters hold the same value.
UniqueKeysAcrossExecIDs ==
    execID["A"] # execID["B"] =>
        \A i, j \in MintedAt :
            minted[i].s # minted[j].s => minted[i].id # minted[j].id

\* the two stores, with different execution ids, have minted keys from the
\* same counter value
UniqueKeysAcrossExecIDsWitness ==
    /\ backend = "key"
    /\ execID["A"] # execID["B"]
    /\ \E i, j \in MintedAt :
         minted[i].s # minted[j].s /\ minted[i].ctr = minted[j].ctr

-----------------------------------------------------------------------------
(* C5 *)

\* the first key a fresh store minted in this run, if any
FirstOfFresh(i) ==
    /\ ~aged[minted[i].s]
    /\ \A j \in 1..(i - 1) : minted[j].s # minted[i].s

-----------------------------------------------------------------------------
(* C6 *)

\* C6 (counter monotonicity): the counter values of successive Puts of one
\* store are strictly increasing (so none is used twice), for any number of
\* Puts, across the largest 32-bit value too.
CounterMonotone ==
    \A i, j \in MintedAt :
        (i < j /\ minted[i].s = minted[j].s)
            => Less32(minted[i].ctr, minted[j].ctr)

-----------------------------------------------------------------------------
(* C7 *)

\* the errors of the Timeout class: the error of the done scope, and Put's
\* own "cid not returned before ctx timeout".  A failed fetch of Get is
\* counted as one too: it wraps whatever the cluster client reports.
TimeoutClass(r) ==
    \/ r.err = CtxErr
    \/ r.err.kind = "cid not returned before ctx timeout"
    \/ r.op = "get" /\ r.err # NilErr

-----------------------------------------------------------------------------
(* C9 *)

\* C9 (pinning Del is unsupported): Del of the pinning store returns an error
\* for every identifier in every state and changes nothing: the cluster holds
\* what it held, and a Get that found the content before finds it after.
DelUnsupported ==
    [][IpfsRuns("del")
         => /\ ret'[Caller].err = Wrapped("not yet")
            /\ pins' = pins
            /\ puts' = puts
            /\ \A k \in IpfsIds :
                 /\ CatFinds(k)' = CatFinds(k)
                 /\ CatFinds(k) => IpfsGetResult(k, "ok")' = IpfsGetResult(k, "ok")]_vars

\* a Del of the identifier a Put returned has failed, and the content is
\* still there for Get
DelUnsupportedWitness ==
    /\ backend = "ipfs"
    /\ ret[Caller].op = "del"
    /\ Live(ret[Caller].k)
    /\ CatFinds(ret[Caller].k)
    /\ IpfsGetResult(ret[Caller].k, "ok").val = puts[ret[Caller].k].data

-----------------------------------------------------------------------------
(* C11 *)

\* C11 (NotFound in the client-minted-key store): a Get of an 8-byte
\* identifier for which the table holds no row, answered by the database,
\* fails with an ErrNotFound that carries the identifier, and with no other
\* kind of error.
KeyGetNotFound ==
    [][\A p \in Procs :
         (Ends(p, "kget") /\ Len(arg[p]) = 8
            /\ LittleEndianUint64(arg[p]) \notin DOMAIN kv /\ ret'[p].db = "ok")
            => /\ ret'[p].err = ErrNotFound(arg[p])
               /\ ErrorsIs(ret'[p].err, ErrNotFound(<<>>))]_vars

-----------------------------------------------------------------------------
(* C12 *)

\* the 8-byte identifiers of the keys in a set of keys
IdsOf(keys) == {LittleEndianPutUint64(key) : key \in keys}

\* what a Get of identifier j, answered by the database, returns now
GetNow(j) ==
    IF backend = "key" THEN KeyGetResult(j, "ok", "ok") ELSE SqlGetResult(j, "ok", "ok")

\* C12 (no side effect on other identifiers): in both relational stores the
\* step of a Put that carries out its insert, whether Put then returns an
\* identifier or an error, and the step of a Del(id) leave the record of every
\* other 8-byte identifier as it was: a Get of it returns the same before and
\* after the step.
NoSideEffect ==
    [][\A p \in Procs :
         LET others(id) ==
               (SqlIds \cup KeyIds \cup IdsOf(DOMAIN kv) \cup IdsOf(DOMAIN kv')) \ {id}
         IN  /\ Ends(p, "put")
               => \A j \in others(LittleEndianPutUint64(Uint64OfInt(autoInc))) :
                     GetNow(j)' = GetNow(j)
             /\ Ends(p, "kput")
               => \A j \in others(arg[p].keyBytes) : GetNow(j)' = GetNow(j)
             /\ Ends(p, "del")
               => \A j \in others(arg[p]) : GetNow(j)' = GetNow(j)]_vars

\* a Put has stored a row and failed (LastInsertId), a Del of another
\* identifier has removed its row and returned nil, and the row of the failed
\* Put is still there
NoSideEffectWitness ==
    \E p, q \in SqlProcs :
        /\ backend = "sql"
        /\ ret[p].op = "put" /\ ret[p].err = Wrapped("lastInsertId")
        /\ ret[q].op = "del" /\ ret[q].err = NilErr /\ ret[q].db = "ok"
        /\ Deleted(ret[q].k)
        /\ LittleEndianUint64(ret[q].k) \notin DOMAIN kv
        /\ DOMAIN kv # {}

-----------------------------------------------------------------------------
(* C13 *)

\* C13 (single-shot completion latch): during one pinning Put, whatever
\* events the cluster delivers, the listener closes gotCid at most once: it
\* never comes to close the closed latch, and so never panics.
LatchSingleShot ==
    backend = "ipfs" => (~crashed /\ ~(lpc = "close" /\ gotCid))

-----------------------------------------------------------------------------
(* C14 *)

\* C14 (first identifier wins): a pinning Put that has returned successfully
\* has returned the string form of the content identifier of the first
\* non-nil event the cluster delivered during the call, whatever events came
\* after it.
FirstIdWins ==
    (backend = "ipfs" /\ pc[Caller] = "idle"
       /\ ret[Caller].op = "put" /\ ret[Caller].err = NilErr)
        => ret[Caller].val = CidString(FirstCid(events))

-----------------------------------------------------------------------------
(* C15 *)

\* C15 (cancellation does not wait for the add call): whenever the deadline
\* has fired while the cluster's Add of a pinning Put is still in progress,
\* Put can take the ctx.Done case of its select and return "cid not returned
\* before ctx timeout" right then, without Add returning first.
NoWaitForAdd ==
    (backend = "ipfs" /\ ~crashed /\ pc[Caller] = "iadd" /\ ctxDone)
        => ENABLED (\E id \in IdReads : IpfsPutSelect("done", id))

-----------------------------------------------------------------------------
(* C16 *)

\* C16 (timeout error only without a result): a pinning Put that has returned
\* "cid not returned before ctx timeout" has done so with the latch gotCid
\* not fired; when Add returned nil and the listener fired the latch before
\* Put's select, Put returns the identifier, also when the deadline has
\* fired by then.
TimeoutOnlyWithoutCid ==
    [][(backend = "ipfs" /\ pc[Caller] = "iselect" /\ pc'[Caller] = "idle" /\ gotCid)
         => /\ ret'[Caller].err = NilErr
            /\ ret'[Caller].val \in {CidString(c) : c \in IdReads}]_vars

-----------------------------------------------------------------------------
(* C17 *)

\* C17 (listener termination): with a non-zero DefaultTimeout, once the scope
\* of a pinning Put is done (the deadline fired, or cancel ran when Put
\* returned) the listener goroutine the call started eventually terminates,
\* whichever way Put returned and whether addedChan was closed or not.
ListenerTerminates ==
    (backend = "ipfs" /\ timeoutOn /\ lpc \in {"loop", "close"} /\ ctxDone)
        ~> (lpc \notin {"loop", "close"})

-----------------------------------------------------------------------------
(* C18 *)

\* caller p has returned from a SetupDB that went on to its create-table
\* step, every statement of the call answered by the database
SetupCreateAnswered(p) ==
    /\ pc[p] = "idle"
    /\ ret[p].op = "setup"
    /\ ret[p].err.kind \in {"nil", "unable to create"}
    /\ ret[p].db \in {"ok", "exists"}

\* C18 (concurrent setup): however the existence checks and create-table
\* steps of concurrent SetupDB calls interleave, at most one call returns nil
\* and the table is created at most once, a call returns nil only if the
\* table was created; and when the calls that found no table have all been
\* answered by the database, exactly one of them has returned nil, every
\* other one an error, and the table has been created exactly once.
ConcurrentSetup ==
    /\ setupOKs <= 1
    /\ creates <= 1
    /\ setupOKs <= creates
    /\ Cardinality({p \in SqlProcs : ret[p].op = "setup" /\ ret[p].err = NilErr}) <= setupOKs
    /\ (backend = "sql" /\ \A p \in SqlProcs : SetupCreateAnswered(p))
        => /\ setupOKs = 1
           /\ creates = 1
           /\ tableExists
           /\ Cardinality({p \in SqlProcs : ret[p].err = NilErr}) = 1
           /\ Cardinality({p \in SqlProcs : ret[p].err = Wrapped("unable to create")})
                = Cardinality(SqlProcs) - 1

\* two SetupDB calls have both found no table and both run their create-table
\* statement: one has returned nil, the other "unable to create"
ConcurrentSetupWitness ==
    /\ backend = "sql"
    /\ \A p \in SqlProcs : SetupCreateAnswered(p)
    /\ \E p \in SqlProcs : ret[p].err = Wrapped("unable to create") /\ ret[p].db = "exists"
    /\ \E p \in SqlProcs : ret[p].err = NilErr

-----------------------------------------------------------------------------
(* C19 *)

\* C19 (store instances do not collide): two client-minted-key store
\* instances created from the same configuration (the same ServerExecID)
\* never mint the same identifier, whatever Puts run on the two.
UniqueKeysAcrossInstances ==
    (backend = "key" /\ execID["A"] = execID["B"]) =>
        \A i, j \in MintedAt :
            minted[i].s # minted[j].s => minted[i].id # minted[j].id

-----------------------------------------------------------------------------
(* C20 *)

\* C20 (NotFound is not confused with a failed query): a Get of the baseline
\* relational store returns an error that matches ErrNotFound exactly when
\* the select was answered without error, the row iteration ended without
\* error and there was no row; when the query fails, or the iteration or the
\* reading of the row ends with an error, Get returns that error, which does
\* not match ErrNotFound, and no data.
NotFoundIffNoRows ==
    [][\A p \in SqlProcs :
         Ends(p, "get") =>
           LET r == ret'[p]
               noRow == LittleEndianUint64(arg[p]) \notin DOMAIN kv
           IN  /\ ErrorsIs(r.err, ErrNotFound(<<>>)) <=> (r.db = "ok" /\ noRow)
               /\ r.db \in {"fail", "timeout"} => r.err = DbError(r.db)
               /\ r.db \in {"errRows", "errScan", "errClose"} => r.err = DBErr
               /\ r.db # "ok" => (r.val = <<>> /\ ~ErrNotFoundIs(r.err, ErrNotFound(arg[p])))
               /\ (r.db = "ok" /\ ~noRow) => r.err = NilErr]_vars

\* one Get of an identifier without a row has ended in an error of the row
\* iteration, and another one in ErrNotFound
NotFoundIffNoRowsWitness ==
    \E p, q \in SqlProcs :
        /\ backend = "sql"
        /\ ret[p].op = "get" /\ ret[p].db = "errRows" /\ ret[p].err = DBErr
        /\ ret[q].op = "get" /\ ret[q].err = ErrNotFound(ret[q].k)
        /\ ret[p].k = ret[q].k
        /\ LittleEndianUint64(ret[p].k) \notin DOMAIN kv

-----------------------------------------------------------------------------
(* C21 *)

\* C21 (malformed identifier): a Get or Del of a relational store called with
\* an identifier shorter than 8 bytes (the empty one too) returns an error to
\* its caller and leaves the store as it was; it never aborts the process.
ShortIdReturnsError ==
    backend \in {"sql", "key"} => ~crashed

====
